---- MODULE Spec2Model ----
(***************************************************************************)
(* Model of convert.py: TextProcessor, FormatProcessor, DocumentProcessor  *)
(* and BatchConverter.  A Python str is a sequence of one-character        *)
(* strings; a docx run is a record [text, bold, italic]; a paragraph is    *)
(* the sequence of its runs and paragraph.text is their concatenation.     *)
(***************************************************************************)
EXTENDS Integers, Sequences, FiniteSets, TLC

VARIABLES
    \* BatchConverter.process_all_files / convert_single_file
    pc,           \* position of the batch: start, loop, convert, done, raised
    word_files,   \* the list get_word_files returned
    file_idx,     \* position of the for loop of process_all_files
    attempted,    \* documents convert_single_file has been called on, in order
    failed,       \* documents whose exception process_all_files caught
    saved,        \* documents whose workbook was saved
    paragraphs,   \* doc.paragraphs of the open document
    para_idx,     \* position of the for loop of convert_single_file
    row,          \* local row of convert_single_file
    article_id,   \* local article_id of convert_single_file
    ws,           \* cells written below the header: sheet row -> record
    emitted,      \* paragraphs of the open document that produced a row
    \* the pure functions, applied to inputs drawn by Init
    call,         \* which function has been applied: "none" before
    paragraph,    \* input of process_paragraph / process_runs
    skip_arg,     \* skip_words argument of process_runs
    out,          \* result of process_paragraph
    runs_out,     \* result of process_runs
    token,        \* input of is_roman_numeral
    answer        \* result of is_roman_numeral

vars == <<pc, word_files, file_idx, attempted, failed, saved, paragraphs, para_idx,
          row, article_id, ws, emitted, call, paragraph, skip_arg, out, runs_out,
          token, answer>>

batch_vars == <<pc, word_files, file_idx, attempted, failed, saved, paragraphs,
                para_idx, row, article_id, ws, emitted>>

pure_vars == <<call, paragraph, skip_arg, out, runs_out, token, answer>>

-----------------------------------------------------------------------------
(* Python str primitives                                                    *)

None == "None"

Whitespace == {" ", "\t", "\n"}

LowerCase == <<"a","b","c","d","e","f","g","h","i","j","k","l","m","n","o","p","q","r",
               "s","t","u","v","w","x","y","z">>

UpperCase == <<"A","B","C","D","E","F","G","H","I","J","K","L","M","N","O","P","Q","R",
               "S","T","U","V","W","X","Y","Z">>

Digits == {"0","1","2","3","4","5","6","7","8","9"}

\* the characters \w of the re module matches
WordChars ==
    {LowerCase[n] : n \in 1..Len(LowerCase)} \cup {UpperCase[n] : n \in 1..Len(UpperCase)}
        \cup Digits \cup {"_"}

UpperChar(c) ==
    IF \E n \in 1..Len(LowerCase) : c = LowerCase[n]
    THEN UpperCase[CHOOSE n \in 1..Len(LowerCase) : c = LowerCase[n]]
    ELSE c

\* str.upper
upper(s) == [n \in 1..Len(s) |-> UpperChar(s[n])]

\* the first index from n on whose character is not in chars, Len(s) + 1 when none
RunStop(s, n, chars) ==
    CHOOSE e \in n..(Len(s) + 1) :
        /\ e = Len(s) + 1 \/ s[e] \notin chars
        /\ \A k \in n..(e - 1) : s[k] \in chars

\* the first index from n on whose character is in chars, Len(s) + 1 when none
FirstOf(s, n, chars) ==
    CHOOSE e \in n..(Len(s) + 1) :
        /\ e = Len(s) + 1 \/ s[e] \in chars
        /\ \A k \in n..(e - 1) : s[k] \notin chars

\* str.lstrip
lstrip(s) == SubSeq(s, RunStop(s, 1, Whitespace), Len(s))

\* str.rstrip
rstrip(s) ==
    SubSeq(s, 1, CHOOSE e \in 0..Len(s) :
                     /\ e = 0 \/ s[e] \notin Whitespace
                     /\ \A k \in (e + 1)..Len(s) : s[k] \in Whitespace)

\* str.strip
strip(s) == rstrip(lstrip(s))

\* str.isspace
isspace(s) == s # <<>> /\ \A n \in 1..Len(s) : s[n] \in Whitespace

RECURSIVE SplitFrom(_, _)
\* the words of s from index n on
SplitFrom(s, n) ==
    LET start == RunStop(s, n, Whitespace)
        stop == FirstOf(s, start, Whitespace)
    IN  IF start > Len(s) THEN <<>>
        ELSE <<SubSeq(s, start, stop - 1)>> \o SplitFrom(s, stop)

\* str.split() with no separator
split(s) == SplitFrom(s, 1)

RECURSIVE join(_, _)
\* sep.join(words)
join(sep, words) ==
    IF words = <<>> THEN <<>>
    ELSE IF Len(words) = 1 THEN words[1]
    ELSE words[1] \o sep \o join(sep, Tail(words))

\* str.endswith
endswith(s, suffix) ==
    Len(s) >= Len(suffix) /\ SubSeq(s, Len(s) - Len(suffix) + 1, Len(s)) = suffix

\* s[n:].startswith(pat), n counted from 1
StartsWithAt(s, n, pat) ==
    n + Len(pat) - 1 <= Len(s) /\ SubSeq(s, n, n + Len(pat) - 1) = pat

\* pat in s
Contains(s, pat) == \E n \in 1..(Len(s) + 1) : StartsWithAt(s, n, pat)

\* the regex assertion $: at the end, or before a newline that ends the string
AtDollar(s, n) == n = Len(s) + 1 \/ (n = Len(s) /\ s[n] = "\n")

-----------------------------------------------------------------------------
(* The patterns of the program and re.sub                                  *)

\* the alternatives of roman_pattern, in the order the pattern lists them
roman_pattern ==
    << <<"I">>, <<"I","I">>, <<"I","I","I">>, <<"I","V">>, <<"V">>, <<"V","I">>,
       <<"V","I","I">>, <<"V","I","I","I">>, <<"I","X">>, <<"X">> >>

\* the pattern \s+ tried at m
WhitespaceRun(s, m) == IF s[m] \in Whitespace THEN RunStop(s, m, Whitespace) ELSE 0

\* the pattern [,:]+$ tried at m
TrailingLabel(s, m) ==
    IF s[m] \in {",", ":"} /\ AtDollar(s, RunStop(s, m, {",", ":"}))
    THEN RunStop(s, m, {",", ":"})
    ELSE 0

\* the regex assertion \b at index n: one side of n is a \w character, the other not
AtWordBoundary(s, n) ==
    (n > 1 /\ s[n - 1] \in WordChars) # (n <= Len(s) /\ s[n] \in WordChars)

\* the pattern of line 135, \b(I|II|III|IV|V|VI|VII|VIII|IX|X)\b[:, ]?, tried at m:
\* the first alternative behind which \b holds, and one of ":", ",", " " if it follows
RomanToken(s, m) ==
    IF /\ AtWordBoundary(s, m)
       /\ \E a \in 1..Len(roman_pattern) :
              /\ StartsWithAt(s, m, roman_pattern[a])
              /\ AtWordBoundary(s, m + Len(roman_pattern[a]))
    THEN LET a == CHOOSE a \in 1..Len(roman_pattern) :
                      /\ StartsWithAt(s, m, roman_pattern[a])
                      /\ AtWordBoundary(s, m + Len(roman_pattern[a]))
                      /\ \A b \in 1..(a - 1) :
                             ~(/\ StartsWithAt(s, m, roman_pattern[b])
                               /\ AtWordBoundary(s, m + Len(roman_pattern[b])))
             stop == m + Len(roman_pattern[a])
         IN  IF stop <= Len(s) /\ s[stop] \in {":", ",", " "} THEN stop + 1 ELSE stop
    ELSE 0

\* the pattern of line 136, <(?!/?span)[^>]+>, tried at m
ForeignTag(s, m) ==
    IF /\ s[m] = "<"
       /\ ~StartsWithAt(s, m + 1, <<"s","p","a","n">>)
       /\ ~StartsWithAt(s, m + 1, <<"/","s","p","a","n">>)
       /\ FirstOf(s, m + 1, {">"}) <= Len(s)
       /\ FirstOf(s, m + 1, {">"}) > m + 1
    THEN FirstOf(s, m + 1, {">"}) + 1
    ELSE 0

\* the pattern c{2,} tried at m
RepeatRun(s, m, c) ==
    IF s[m] = c /\ m < Len(s) /\ s[m + 1] = c THEN RunStop(s, m, {c}) ELSE 0

\* the pattern of line 148, :{2,}
ColonRun(s, m) == RepeatRun(s, m, ":")

\* the pattern of line 149, ,{2,}
CommaRun(s, m) == RepeatRun(s, m, ",")

\* where the pattern named, tried at index m of s, stops: the index behind its
\* match, 0 when it does not match at m.  No pattern matches the empty string.
MatchStop(pattern, s, m) ==
    CASE pattern = "WhitespaceRun" -> WhitespaceRun(s, m)
      [] pattern = "TrailingLabel" -> TrailingLabel(s, m)
      [] pattern = "RomanToken" -> RomanToken(s, m)
      [] pattern = "ForeignTag" -> ForeignTag(s, m)
      [] pattern = "ColonRun" -> ColonRun(s, m)
      [] pattern = "CommaRun" -> CommaRun(s, m)

RECURSIVE re_sub_from(_, _, _, _)
\* re.sub on s from index n on, stops[m] being where the pattern stops when tried
\* at m: the leftmost match is replaced by repl and the search goes on behind it
re_sub_from(stops, repl, s, n) ==
    IF \E m \in n..Len(s) : stops[m] > 0
    THEN LET m == CHOOSE m \in n..Len(s) :
                      stops[m] > 0 /\ \A k \in n..(m - 1) : stops[k] = 0
         IN  SubSeq(s, n, m - 1) \o repl \o re_sub_from(stops, repl, s, stops[m])
    ELSE SubSeq(s, n, Len(s))

\* re.sub(pattern, repl, s)
re_sub(pattern, repl, s) ==
    re_sub_from([m \in 1..Len(s) |-> MatchStop(pattern, s, m)], repl, s, 1)

-----------------------------------------------------------------------------
(* TextProcessor                                                           *)

\* a mutant of MatchesRoman: the pattern without its closing $
MatchesRomanPrefix(t) ==
    \E n \in 1..Len(roman_pattern) : StartsWithAt(t, 1, roman_pattern[n])

\* re.match(r'^(I|II|III|IV|V|VI|VII|VIII|IX|X)$', t)
MatchesRoman(t) ==
    \E n \in 1..Len(roman_pattern) :
        StartsWithAt(t, 1, roman_pattern[n]) /\ AtDollar(t, Len(roman_pattern[n]) + 1)

is_roman_numeral(text) == MatchesRoman(strip(text))

normalize_text(text) == strip(re_sub("WhitespaceRun", <<" ">>, text))

clean_first_word(word) == strip(re_sub("TrailingLabel", <<>>, word))

-----------------------------------------------------------------------------
(* FormatProcessor                                                         *)

get_run_formatting(run) ==
    IF run.bold /\ run.italic THEN "bold italic"
    ELSE IF run.bold THEN "bold"
    ELSE IF run.italic THEN "italic"
    ELSE None

\* the characters of a format name inside the class attribute
ClassChars(format) ==
    CASE format = "bold italic" -> <<"b","o","l","d"," ","i","t","a","l","i","c">>
      [] format = "bold" -> <<"b","o","l","d">>
      [] format = "italic" -> <<"i","t","a","l","i","c">>

SpanOpen(format) == <<"<","s","p","a","n"," ","c","l","a","s","s","=","\"">> \o ClassChars(format) \o <<"\"",">">>

SpanClose == <<"<","/","s","p","a","n",">">>

RECURSIVE Concat(_)
\* ''.join(list)
Concat(list) == IF list = <<>> THEN <<>> ELSE Head(list) \o Concat(Tail(list))

\* the text of one entry of formatted_text: a piece is the (current_format,
\* current_text) pair being closed out; its field runs is history, the indices of
\* the runs whose text was appended to current_text
RenderPiece(piece) ==
    IF piece.format # None
    THEN SpanOpen(piece.format) \o piece.text \o SpanClose
    ELSE piece.text

\* a mutant of FormatChanged: a run never starts a new piece
FormatNeverChanged(run_format, current_format) == FALSE

\* the test of line 76
FormatChanged(run_format, current_format) == run_format # current_format

\* lines 77-82 and 88-92: close out current_text as one piece of formatted_text
Flushed(acc) ==
    IF acc.current_text # <<>>
    THEN Append(acc.formatted_text,
                [format |-> acc.current_format,
                 text |-> Concat(acc.current_text),
                 runs |-> acc.current_runs])
    ELSE acc.formatted_text

\* lines 74-86: a run whose text run_text is kept
KeepRun(acc, run, n, run_text, words_processed) ==
    LET run_format == get_run_formatting(run)
        changed == FormatChanged(run_format, acc.current_format)
    IN  [formatted_text |-> IF changed THEN Flushed(acc) ELSE acc.formatted_text,
         current_format |-> IF changed THEN run_format ELSE acc.current_format,
         current_text |-> IF changed THEN <<run_text>> ELSE Append(acc.current_text, run_text),
         current_runs |-> IF changed THEN <<n>> ELSE Append(acc.current_runs, n),
         words_processed |-> words_processed]

\* one iteration of the loop of process_runs, lines 57-86, on run n
RunStep(acc, run, n, skip_words) ==
    IF strip(run.text) = <<>>
    THEN IF acc.current_text # <<>> /\ isspace(run.text)
         THEN [acc EXCEPT !.current_text = Append(@, run.text),
                          !.current_runs = Append(@, n)]
         ELSE acc
    ELSE IF acc.words_processed < skip_words
         THEN LET words == split(run.text)
              IN  IF Len(words) + acc.words_processed <= skip_words
                  THEN [acc EXCEPT !.words_processed = @ + Len(words)]
                  ELSE LET remaining_words == skip_words - acc.words_processed
                       IN  KeepRun(acc, run, n,
                                   join(<<" ">>, SubSeq(words, remaining_words + 1, Len(words))),
                                   skip_words)
         ELSE KeepRun(acc, run, n, run.text, acc.words_processed)

RECURSIVE RunLoop(_, _, _, _)
RunLoop(acc, runs, n, skip_words) ==
    IF n > Len(runs) THEN acc
    ELSE RunLoop(RunStep(acc, runs[n], n, skip_words), runs, n + 1, skip_words)

\* formatted_text at line 94: the pieces process_runs joins
formatted_pieces(runs, skip_words) ==
    Flushed(RunLoop([formatted_text |-> <<>>, current_format |-> None,
                     current_text |-> <<>>, current_runs |-> <<>>,
                     words_processed |-> 0],
                    runs, 1, skip_words))

RECURSIVE JoinPieces(_)
JoinPieces(pieces) ==
    IF pieces = <<>> THEN <<>> ELSE RenderPiece(Head(pieces)) \o JoinPieces(Tail(pieces))

process_runs(runs, skip_words) == JoinPieces(formatted_pieces(runs, skip_words))

-----------------------------------------------------------------------------
(* DocumentProcessor                                                       *)

\* paragraph.text: the text of the runs, concatenated
ParagraphText(runs) == Concat([n \in 1..Len(runs) |-> runs[n].text])

\* where (.*?)(</span>) started at n puts </span>: the first </span> from n on with
\* no newline before it, 0 when there is none
LazyClose(s, n) ==
    LET newline == FirstOf(s, n, {"\n"})
    IN  IF \E k \in n..newline : StartsWithAt(s, k, SpanClose)
        THEN CHOOSE k \in n..newline :
                 /\ StartsWithAt(s, k, SpanClose)
                 /\ \A j \in n..(k - 1) : ~StartsWithAt(s, j, SpanClose)
        ELSE 0

\* the pattern of line 140, (<span[^>]*>)(.*?)(</span>), tried at m: the index of
\* the </span> it ends with, 0 when it does not match
SpanMatchAt(s, m) ==
    IF StartsWithAt(s, m, <<"<","s","p","a","n">>) /\ FirstOf(s, m + 5, {">"}) <= Len(s)
    THEN LazyClose(s, FirstOf(s, m + 5, {">"}) + 1)
    ELSE 0

\* a mutant of InsertInFirstSpan: the punctuation goes behind the closing tag
InsertBehindFirstSpan(s, punctuation) ==
    IF \E m \in 1..Len(s) : SpanMatchAt(s, m) > 0
    THEN LET first == CHOOSE m \in 1..Len(s) :
                          /\ SpanMatchAt(s, m) > 0
                          /\ \A k \in 1..(m - 1) : SpanMatchAt(s, k) = 0
             behind == SpanMatchAt(s, first) + Len(SpanClose)
         IN  SubSeq(s, 1, behind - 1) \o <<punctuation>> \o SubSeq(s, behind, Len(s))
    ELSE s

\* lines 140-143: re.sub(r'(<span[^>]*>)(.*?)(</span>)', r'\1\2P\3', s, count=1)
InsertInFirstSpan(s, punctuation) ==
    IF \E m \in 1..Len(s) : SpanMatchAt(s, m) > 0
    THEN LET first == CHOOSE m \in 1..Len(s) :
                          /\ SpanMatchAt(s, m) > 0
                          /\ \A k \in 1..(m - 1) : SpanMatchAt(s, k) = 0
             close == SpanMatchAt(s, first)
         IN  SubSeq(s, 1, close - 1) \o <<punctuation>> \o SubSeq(s, close, Len(s))
    ELSE s

\* lines 138-145
ReattachPunctuation(s, has_punctuation) ==
    IF has_punctuation # None
    THEN IF Contains(s, <<"<","s","p","a","n">>)
         THEN InsertInFirstSpan(s, has_punctuation)
         ELSE <<has_punctuation, " ">> \o s
    ELSE s

\* the punctuation a word ends with, as lines 129-132 take it
TrailingPunctuation(word) ==
    IF endswith(word, <<":">>) THEN ":"
    ELSE IF endswith(word, <<",">>) THEN ","
    ELSE None

\* a mutant of ClassifyWords: the else of line 128 belongs to the if of line 117,
\* so that the first word gives the punctuation whenever no numeral follows it
ClassifyWordsElseOfNumeral(words) ==
    LET first_word == clean_first_word(upper(words[1]))
    IN  IF Len(words) > 1 /\ is_roman_numeral(clean_first_word(words[2]))
        THEN [first_word |-> first_word \o <<" ">> \o clean_first_word(words[2]),
              skip_words |->
                  IF /\ TrailingPunctuation(words[2]) = None
                     /\ Len(words) > 2
                     /\ (words[3] = <<":">> \/ words[3] = <<",">>)
                  THEN 3 ELSE 2,
              has_punctuation |->
                  IF TrailingPunctuation(words[2]) # None THEN TrailingPunctuation(words[2])
                  ELSE IF Len(words) > 2 /\ (words[3] = <<":">> \/ words[3] = <<",">>)
                  THEN words[3][1]
                  ELSE None]
        ELSE [first_word |-> first_word,
              skip_words |-> 1,
              has_punctuation |-> TrailingPunctuation(words[1])]

\* lines 109-132: the title, the skip count and the punctuation, from the words
ClassifyWords(words) ==
    LET first_word == clean_first_word(upper(words[1]))
    IN  IF Len(words) > 1
        THEN LET second_word == words[2]
                 second_word_clean == clean_first_word(second_word)
             IN  IF is_roman_numeral(second_word_clean)
                 THEN [first_word |-> first_word \o <<" ">> \o second_word_clean,
                       skip_words |->
                           IF /\ ~endswith(second_word, <<":">>)
                              /\ ~endswith(second_word, <<",">>)
                              /\ Len(words) > 2
                              /\ (words[3] = <<":">> \/ words[3] = <<",">>)
                           THEN 3 ELSE 2,
                       has_punctuation |->
                           IF endswith(second_word, <<":">>) THEN ":"
                           ELSE IF endswith(second_word, <<",">>) THEN ","
                           ELSE IF Len(words) > 2 /\ (words[3] = <<":">> \/ words[3] = <<",">>)
                           THEN words[3][1]
                           ELSE None]
                 ELSE [first_word |-> first_word, skip_words |-> 1, has_punctuation |-> None]
        ELSE [first_word |-> first_word,
              skip_words |-> 1,
              has_punctuation |-> TrailingPunctuation(words[1])]

\* lines 135-149 on the text process_runs returned
PostProcess(formatted_content, has_punctuation) ==
    LET numerals_removed == re_sub("RomanToken", <<>>, formatted_content)
        sanitized == re_sub("ForeignTag", <<>>, numerals_removed)
        reattached == ReattachPunctuation(sanitized, has_punctuation)
        normalized == strip(re_sub("WhitespaceRun", <<" ">>, reattached))
    IN  [numerals_removed |-> numerals_removed,
         sanitized |-> sanitized,
         content |-> re_sub("CommaRun", <<",">>, re_sub("ColonRun", <<":">>, normalized))]

\* process_paragraph returns (title, content); the other fields are its locals at
\* the return: words, skip_words, has_punctuation, the pieces and the text that
\* process_runs returned, and formatted_content after lines 135 and 136
process_paragraph(runs) ==
    LET text == normalize_text(ParagraphText(runs))
        words == split(text)
    IN  IF words = <<>>
        THEN [title |-> <<>>, content |-> <<>>, words |-> words, skip_words |-> 0,
              has_punctuation |-> None, pieces |-> <<>>, raw |-> <<>>,
              numerals_removed |-> <<>>, sanitized |-> <<>>]
        ELSE LET c == ClassifyWords(words)
                 pieces == formatted_pieces(runs, c.skip_words)
                 raw == JoinPieces(pieces)
                 post == PostProcess(raw, c.has_punctuation)
             IN  [title |-> c.first_word, content |-> post.content, words |-> words,
                  skip_words |-> c.skip_words, has_punctuation |-> c.has_punctuation,
                  pieces |-> pieces, raw |-> raw,
                  numerals_removed |-> post.numerals_removed,
                  sanitized |-> post.sanitized]

-----------------------------------------------------------------------------
(* Inputs                                                                  *)

Run(text, bold, italic) == [text |-> text, bold |-> bold, italic |-> italic]

Plain(text) == Run(text, FALSE, FALSE)

Bold(text) == Run(text, TRUE, FALSE)

\* the longest list of documents, and the most paragraphs of a document
MaxFiles == 2

MaxParas == 2

\* the most runs of a generated paragraph, and the largest skip_words tried
MaxRuns == 2

MaxSkip == 3

\* the longest token is_roman_numeral is tried on
MaxTokenLen == 4

\* every sequence over S of length at most n
SeqsUpTo(S, n) == UNION {[1..k -> S] : k \in 0..n}

\* the stems of the documents the input directory may hold
Stems == {<<"a">>, <<"b">>, <<"c">>}

\* the lists glob may return: no path twice
FileLists ==
    {l \in SeqsUpTo(Stems, MaxFiles) : \A m, n \in 1..Len(l) : m # n => l[m] # l[n]}

\* paragraphs of the documents of the batch: without runs, of whitespace only, with
\* text but no title, with a one-word title, with a title that takes a numeral
BatchParagraphs ==
    { <<>>,
      <<Bold(<<" ">>), Plain(<<"\t","\n">>)>>,
      <<Plain(<<":">>)>>,
      <<Plain(<<"T"," ","a">>)>>,
      <<Plain(<<"T"," ">>), Bold(<<"I","I",":"," ">>), Plain(<<"a">>)>> }

Documents == SeqsUpTo(BatchParagraphs, MaxParas)

\* the paragraphs of the examples
SectionExample ==
    << Plain(<<"S","e","c","t","i","o","n"," ","I","I",":"," ">>),
       Bold(<<"H","e","l","l","o"," ">>),
       Plain(<<"w","o","r","l","d">>) >>

OverviewExample ==
    << Plain(<<"O","v","e","r","v","i","e","w",","," ","t","h","i","s"," ","i","s"," ",
               "t","h","e"," ","b","o","d","y">>) >>

ChapterExample ==
    << Plain(<<"C","h","a","p","t","e","r"," ">>),
       Plain(<<"I","V"," ","O","v","e","r","v","i","e","w"," ","o","f"," ","t","h","e"," ",
               "t","o","p","i","c">>) >>

\* every paragraph of at most MaxRuns runs, each with a text of texts and any style
ParagraphsOver(texts) ==
    SeqsUpTo({Run(t, b, i) : t \in texts, b \in BOOLEAN, i \in BOOLEAN}, MaxRuns)

\* the texts of the runs of the generated paragraphs: a title word alone, with a body
\* word and with a numeral, a numeral with its colon, a punctuation token, body words
\* with and without a space behind them, whitespace
RunTexts ==
    { <<"T"," ">>, <<"T"," ","a">>, <<"T"," ","I","I"," ">>, <<" ">>, <<"a">>,
      <<"a"," ","b"," ">>, <<"I","I",":"," ">>, <<":"," ">> }

ParagraphInputs ==
    ParagraphsOver(RunTexts) \cup {SectionExample, OverviewExample, ChapterExample}

\* the texts of the runs of the paragraphs that hold markup of their own
MarkupTexts ==
    { <<"T"," ">>, <<"T"," ","a","<","b">>, <<"a">>, <<"<","i",">","a">>,
      <<"<","/","i",">"," ">> }

MarkupInputs == ParagraphsOver(MarkupTexts)

TokenInputs == SeqsUpTo({"I", "V", "X", "i", " ", "\n"}, MaxTokenLen)

NoResult ==
    [title |-> <<>>, content |-> <<>>, words |-> <<>>, skip_words |-> 0,
     has_punctuation |-> None, pieces |-> <<>>, raw |-> <<>>,
     numerals_removed |-> <<>>, sanitized |-> <<>>]

BatchIdle ==
    /\ pc = "idle" /\ word_files = <<>> /\ file_idx = 0 /\ attempted = <<>>
    /\ failed = {} /\ saved = {} /\ paragraphs = <<>> /\ para_idx = 0
    /\ row = 0 /\ article_id = 0 /\ ws = <<>> /\ emitted = <<>>

PureIdle ==
    /\ call = "none" /\ paragraph = <<>> /\ skip_arg = 0 /\ out = NoResult
    /\ runs_out = <<>> /\ token = <<>> /\ answer = FALSE

-----------------------------------------------------------------------------
(* BatchConverter                                                          *)

Init ==
    /\ pc = "start" /\ word_files = <<>> /\ file_idx = 0 /\ attempted = <<>>
    /\ failed = {} /\ saved = {} /\ paragraphs = <<>> /\ para_idx = 0
    /\ row = 0 /\ article_id = 0 /\ ws = <<>> /\ emitted = <<>>
    /\ PureIdle

doc_path == word_files[file_idx]

\* a mutant of FirstArticleId: the counter is not set again for the next document
StaleArticleId == IF article_id = 0 THEN 1 ELSE article_id

\* line 184
FirstArticleId == 1

\* line 183
FirstRow == 2

\* a mutant of WritesRow: every paragraph is written
WritesAnyRow(text, title) == TRUE

\* lines 189 and 191: the paragraph is written as a row
WritesRow(text, title) == text # <<>> /\ title # <<>>

\* a mutant of AfterDocumentError: the handler of line 239 raises again
RaiseDocumentError(next) == "raised"

\* lines 239-241: the error is logged and the loop goes on with the next document
AfterDocumentError(next) == IF next > Len(word_files) THEN "done" ELSE "loop"

\* the for loop of line 236 after convert_single_file returned
AfterDocument(next) == IF next > Len(word_files) THEN "done" ELSE "loop"

\* lines 227-234: the directories are made and the documents listed
Discover ==
    /\ pc = "start"
    /\ \E l \in FileLists :
        /\ word_files' = l
        /\ file_idx' = 1
        /\ pc' = IF l = <<>> THEN "done" ELSE "loop"
    /\ UNCHANGED <<attempted, failed, saved, paragraphs, para_idx, row, article_id, ws,
                   emitted>>
    /\ UNCHANGED pure_vars

\* lines 227-228 raise: the except of line 245 logs and raises again
DiscoverFails ==
    /\ pc = "start"
    /\ pc' = "raised"
    /\ UNCHANGED <<word_files, file_idx, attempted, failed, saved, paragraphs, para_idx,
                   row, article_id, ws, emitted>>
    /\ UNCHANGED pure_vars

\* line 238 and lines 170-185: convert_single_file opens the document
OpenDocument ==
    /\ pc = "loop"
    /\ attempted' = Append(attempted, doc_path)
    /\ \E d \in Documents : paragraphs' = d
    /\ para_idx' = 1
    /\ row' = FirstRow
    /\ article_id' = FirstArticleId
    /\ ws' = <<>>
    /\ emitted' = <<>>
    /\ pc' = "convert"
    /\ UNCHANGED <<word_files, file_idx, failed, saved>>
    /\ UNCHANGED pure_vars

\* line 238 and line 174 raises: lines 220-222 log and raise, lines 239-241 catch
OpenDocumentFails ==
    /\ pc = "loop"
    /\ attempted' = Append(attempted, doc_path)
    /\ failed' = failed \cup {doc_path}
    /\ file_idx' = file_idx + 1
    /\ pc' = AfterDocumentError(file_idx + 1)
    /\ UNCHANGED <<word_files, saved, paragraphs, para_idx, row, article_id, ws, emitted>>
    /\ UNCHANGED pure_vars

\* line 188 on each paragraph a document of the batch may hold
ParagraphTexts == [p \in BatchParagraphs |-> normalize_text(ParagraphText(p))]

\* line 190 on each paragraph a document of the batch may hold
Segmented == [p \in BatchParagraphs |-> process_paragraph(p)]

\* lines 187-202: one paragraph of the document
ConvertParagraph ==
    /\ pc = "convert"
    /\ para_idx <= Len(paragraphs)
    /\ LET text == ParagraphTexts[paragraphs[para_idx]]
           result == Segmented[paragraphs[para_idx]]
       IN  IF WritesRow(text, result.title)
           THEN /\ ws' = [r \in (DOMAIN ws) \cup {row} |->
                             IF r = row
                             THEN [articleid |-> article_id,
                                   articlecat |-> upper(doc_path),
                                   articletitle |-> result.title,
                                   articleintrotext |->
                                       <<"<","p",">">> \o result.content \o <<"<","/","p",">">>]
                             ELSE ws[r]]
                /\ article_id' = article_id + 1
                /\ row' = row + 1
                /\ emitted' = Append(emitted, para_idx)
           ELSE UNCHANGED <<ws, article_id, row, emitted>>
    /\ para_idx' = para_idx + 1
    /\ UNCHANGED <<pc, word_files, file_idx, attempted, failed, saved, paragraphs>>
    /\ UNCHANGED pure_vars

\* lines 204-218: the workbook is saved and convert_single_file returns
SaveWorkbook ==
    /\ pc = "convert"
    /\ para_idx > Len(paragraphs)
    /\ saved' = saved \cup {doc_path}
    /\ file_idx' = file_idx + 1
    /\ pc' = AfterDocument(file_idx + 1)
    /\ UNCHANGED <<word_files, attempted, failed, paragraphs, para_idx, row, article_id,
                   ws, emitted>>
    /\ UNCHANGED pure_vars

\* line 217 raises: lines 220-222 log and raise, lines 239-241 catch
SaveWorkbookFails ==
    /\ pc = "convert"
    /\ para_idx > Len(paragraphs)
    /\ failed' = failed \cup {doc_path}
    /\ file_idx' = file_idx + 1
    /\ pc' = AfterDocumentError(file_idx + 1)
    /\ UNCHANGED <<word_files, attempted, saved, paragraphs, para_idx, row, article_id,
                   ws, emitted>>
    /\ UNCHANGED pure_vars

Next ==
    \/ Discover
    \/ DiscoverFails
    \/ OpenDocument
    \/ OpenDocumentFails
    \/ ConvertParagraph
    \/ SaveWorkbook
    \/ SaveWorkbookFails

Spec == Init /\ [][Next]_vars

\* the interpreter runs the one thread of the program until it returns or raises
FairSpec == Spec /\ WF_vars(Next)

-----------------------------------------------------------------------------
(* The pure functions, each applied once to an input Init draws            *)

SegmentInit ==
    /\ BatchIdle
    /\ call = "none" /\ paragraph \in ParagraphInputs /\ skip_arg = 0 /\ out = NoResult
    /\ runs_out = <<>> /\ token = <<>> /\ answer = FALSE

\* DocumentProcessor.process_paragraph(paragraph)
Segment ==
    /\ call = "none"
    /\ call' = "process_paragraph"
    /\ out' = process_paragraph(paragraph)
    /\ UNCHANGED <<paragraph, skip_arg, runs_out, token, answer>>
    /\ UNCHANGED batch_vars

SegmentNext == Segment

SegmentSpec == SegmentInit /\ [][SegmentNext]_vars

MarkupInit ==
    /\ BatchIdle
    /\ call = "none" /\ paragraph \in MarkupInputs /\ skip_arg = 0 /\ out = NoResult
    /\ runs_out = <<>> /\ token = <<>> /\ answer = FALSE

MarkupSpec == MarkupInit /\ [][SegmentNext]_vars

RunsInit ==
    /\ BatchIdle
    /\ call = "none" /\ paragraph \in ParagraphInputs /\ skip_arg \in 0..MaxSkip
    /\ out = NoResult /\ runs_out = <<>> /\ token = <<>> /\ answer = FALSE

\* FormatProcessor.process_runs(paragraph, skip_arg)
FormatRuns ==
    /\ call = "none"
    /\ call' = "process_runs"
    /\ runs_out' = formatted_pieces(paragraph, skip_arg)
    /\ UNCHANGED <<paragraph, skip_arg, out, token, answer>>
    /\ UNCHANGED batch_vars

RunsNext == FormatRuns

RunsSpec == RunsInit /\ [][RunsNext]_vars

RomanInit ==
    /\ BatchIdle
    /\ call = "none" /\ paragraph = <<>> /\ skip_arg = 0 /\ out = NoResult
    /\ runs_out = <<>> /\ token \in TokenInputs /\ answer = FALSE

\* TextProcessor.is_roman_numeral(token)
Classify ==
    /\ call = "none"
    /\ call' = "is_roman_numeral"
    /\ answer' = is_roman_numeral(token)
    /\ UNCHANGED <<paragraph, skip_arg, out, runs_out, token>>
    /\ UNCHANGED batch_vars

RomanNext == Classify

RomanSpec == RomanInit /\ [][RomanNext]_vars

-----------------------------------------------------------------------------
(* Properties                                                              *)

\* the number of places of s where pat stands
Count(s, pat) == Cardinality({n \in 1..Len(s) : StartsWithAt(s, n, pat)})

\* words without its first k words
Drop(words, k) == SubSeq(words, k + 1, Len(words))

\* the text of the pieces without their span tags
PiecesText(pieces) == Concat([n \in 1..Len(pieces) |-> pieces[n].text])

\* the paragraphs among the first n of the open document whose title is not empty
Titled(n) == {k \in 1..n : process_paragraph(paragraphs[k]).title # <<>>}

\* C1: while a document is converted, the rows written are the paragraphs with a
\* title seen so far, in document order; the k-th of them stands at sheet row k + 1
\* with articleid k, and the counter is one more than their number, in every
\* document of the batch, whatever the documents before it did.
ArticleIdsContiguous ==
    pc = "convert" =>
        /\ DOMAIN ws = 2..(Len(emitted) + 1)
        /\ \A k \in 1..Len(emitted) :
               /\ ws[k + 1].articleid = k
               /\ ws[k + 1].articletitle = process_paragraph(paragraphs[emitted[k]]).title
        /\ {emitted[k] : k \in 1..Len(emitted)} = Titled(para_idx - 1)
        /\ \A j, k \in 1..Len(emitted) : j < k => emitted[j] < emitted[k]
        /\ article_id = Len(emitted) + 1
        /\ row = Len(emitted) + 2

\* C1 witness: the second document of a batch has written two rows, after a first
\* document that failed
SecondDocumentNumbered ==
    /\ pc = "convert"
    /\ file_idx = 2
    /\ word_files[1] \in failed
    /\ Len(emitted) = 2
    /\ Len(paragraphs) = 2
    /\ ws[3].articleid = 2

\* C2: the documents attempted are always the first ones of the list, in its order,
\* and once the documents are listed the batch comes to its end with every one of
\* them attempted once and no error raised to the caller.
EveryDocumentAttempted ==
    /\ [](attempted = SubSeq(word_files, 1, Len(attempted)))
    /\ [](pc = "loop" => <>(pc = "done" /\ attempted = word_files))

\* C2 witness: the batch ended after its first document failed and its second one
\* was converted
BatchEndedAfterFailure ==
    /\ pc = "done"
    /\ Len(word_files) = 2
    /\ word_files[1] \in failed
    /\ word_files[2] \in saved
    /\ attempted = word_files

\* a paragraph without a word
IsBlank(runs) == split(ParagraphText(runs)) = <<>>

\* C7: a paragraph without a word yields an empty title and an empty body, and the
\* step of convert_single_file over it writes no row and leaves the counter alone.
BlankParagraphWritesNothing ==
    [][(pc = "convert" /\ para_idx <= Len(paragraphs) /\ IsBlank(paragraphs[para_idx])) =>
           /\ process_paragraph(paragraphs[para_idx]).title = <<>>
           /\ process_paragraph(paragraphs[para_idx]).content = <<>>
           /\ ws' = ws
           /\ row' = row
           /\ article_id' = article_id]_vars

\* C7 witness: the loop has passed a paragraph of whitespace runs after a row
BlankParagraphPassed ==
    /\ pc = "convert"
    /\ para_idx = 3
    /\ Len(paragraphs[2]) > 0
    /\ IsBlank(paragraphs[2])
    /\ row = 3

Called(name) == call = name

\* C3 as claimed: the body of the Section example carries no colon
SectionBodyWithoutColon ==
    (Called("process_paragraph") /\ paragraph = SectionExample) =>
        /\ out.title = <<"S","E","C","T","I","O","N"," ","I","I">>
        /\ out.has_punctuation = ":"
        /\ out.content = <<"<","s","p","a","n"," ","c","l","a","s","s","=","\"","b","o","l",
                           "d","\"",">","H","e","l","l","o"," ","<","/","s","p","a","n",">",
                           "w","o","r","l","d">>

\* C3 amended: for the Section example the title is SECTION II, the punctuation is
\* the colon, and the body is <span class="bold">Hello :</span>world: the colon is
\* put back in front of the closing tag of the first span.
SectionBodyKeepsColon ==
    (Called("process_paragraph") /\ paragraph = SectionExample) =>
        /\ out.title = <<"S","E","C","T","I","O","N"," ","I","I">>
        /\ out.has_punctuation = ":"
        /\ out.content = <<"<","s","p","a","n"," ","c","l","a","s","s","=","\"","b","o","l",
                           "d","\"",">","H","e","l","l","o"," ",":","<","/","s","p","a","n",
                           ">","w","o","r","l","d">>

\* C3 witness: the Section example has been segmented, its first run skipped whole
SectionSegmented ==
    /\ Called("process_paragraph")
    /\ paragraph = SectionExample
    /\ out.skip_words = 2
    /\ Len(out.pieces) = 2
    /\ out.pieces[1].runs = <<2>>

\* C4 as claimed: the comma of the Overview example is detected and put back
OverviewCommaReattached ==
    (Called("process_paragraph") /\ paragraph = OverviewExample) =>
        /\ out.title = <<"O","V","E","R","V","I","E","W">>
        /\ out.has_punctuation = ","
        /\ out.content = <<","," ","t","h","i","s"," ","i","s"," ","t","h","e"," ","b","o",
                           "d","y">>

\* C4 amended: for the Overview example the title is OVERVIEW, no punctuation is
\* detected (the second word is no numeral and the paragraph has more than one
\* word), and the body is "this is the body": the comma goes with the first word.
OverviewCommaDropped ==
    (Called("process_paragraph") /\ paragraph = OverviewExample) =>
        /\ out.title = <<"O","V","E","R","V","I","E","W">>
        /\ out.has_punctuation = None
        /\ out.content = <<"t","h","i","s"," ","i","s"," ","t","h","e"," ","b","o","d","y">>

\* C4 witness: the Overview example has been segmented, one word skipped inside
\* its only run
OverviewSegmented ==
    /\ Called("process_paragraph")
    /\ paragraph = OverviewExample
    /\ out.skip_words = 1
    /\ endswith(out.words[1], <<",">>)
    /\ Len(out.pieces) = 1

\* no word of the paragraph lies across the boundary of two runs
NoStraddle(runs) ==
    Concat([n \in 1..Len(runs) |-> split(runs[n].text)]) = split(ParagraphText(runs))

\* C5: when no word lies across a run boundary, the words of the text process_runs
\* keeps are the words of the paragraph without the first skip_words of them.
SkipRemovesFirstWords ==
    (Called("process_runs") /\ NoStraddle(paragraph)) =>
        split(PiecesText(runs_out)) = Drop(split(ParagraphText(paragraph)), skip_arg)

\* the places of s where a span tag opens or closes
SpanOpens(s) == {n \in 1..Len(s) : StartsWithAt(s, n, <<"<","s","p","a","n">>)}

SpanCloses(s) == {n \in 1..Len(s) : StartsWithAt(s, n, SpanClose)}

\* opening and closing span tags alternate, an opening one first, a closing one last
TagsBalanced(s) ==
    /\ \A o \in SpanOpens(s) :
           \E c \in SpanCloses(s) :
               c > o /\ \A t \in SpanOpens(s) \cup SpanCloses(s) : ~(o < t /\ t < c)
    /\ \A c \in SpanCloses(s) :
           \E o \in SpanOpens(s) :
               o < c /\ \A t \in SpanOpens(s) \cup SpanCloses(s) : ~(o < t /\ t < c)

\* two pieces that follow each other never have the same format
AdjacentPiecesDiffer(pieces) ==
    \A k \in 1..(Len(pieces) - 1) : pieces[k].format # pieces[k + 1].format

PlainTag(s, m) ==
    IF /\ s[m] = "<"
       /\ FirstOf(s, m + 1, {"<", ">"}) <= Len(s)
       /\ s[FirstOf(s, m + 1, {"<", ">"})] = ">"
    THEN FirstOf(s, m + 1, {"<", ">"}) + 1
    ELSE 0

RECURSIVE TextOutsideTagsFrom(_, _)
TextOutsideTagsFrom(s, n) ==
    IF \E m \in n..Len(s) : PlainTag(s, m) > 0
    THEN LET m == CHOOSE m \in n..Len(s) :
                      PlainTag(s, m) > 0 /\ \A k \in n..(m - 1) : PlainTag(s, k) = 0
         IN  SubSeq(s, n, m - 1) \o TextOutsideTagsFrom(s, PlainTag(s, m))
    ELSE SubSeq(s, n, Len(s))

\* s without its tags
TextOutsideTags(s) == TextOutsideTagsFrom(s, 1)

\* C8: the sanitizing step of line 136 keeps every span tag process_runs wrote,
\* leaves no other tag behind, and removes no text that is not a tag.
SanitizerKeepsSpans ==
    Called("process_paragraph") =>
        /\ \A f \in {"bold", "italic", "bold italic"} :
               Count(out.sanitized, SpanOpen(f)) = Count(out.numerals_removed, SpanOpen(f))
        /\ Count(out.sanitized, SpanClose) = Count(out.numerals_removed, SpanClose)
        /\ \A m \in 1..Len(out.sanitized) : ForeignTag(out.sanitized, m) = 0
        /\ TextOutsideTags(out.sanitized) = TextOutsideTags(out.numerals_removed)

\* the ten tokens
RomanTokens ==
    { <<"I">>, <<"I","I">>, <<"I","I","I">>, <<"I","V">>, <<"V">>, <<"V","I">>,
      <<"V","I","I">>, <<"V","I","I","I">>, <<"I","X">>, <<"X">> }

\* C9 as claimed: the answer is true for the ten tokens and for no other string
RomanExactlyTen ==
    Called("is_roman_numeral") => (answer <=> token \in RomanTokens)

\* C9 amended: the answer is true exactly for the strings that are one of the ten
\* tokens with nothing but whitespace before and behind it.
RomanTenUpToWhitespace ==
    Called("is_roman_numeral") =>
        (answer <=>
            \E a \in 1..Len(token) : \E b \in a..Len(token) :
                /\ SubSeq(token, a, b) \in RomanTokens
                /\ \A n \in 1..Len(token) : (n < a \/ n > b) => token[n] \in Whitespace)

\* C9 witness: a token with whitespace around it has been answered with true
PaddedTokenAccepted ==
    /\ Called("is_roman_numeral")
    /\ token = <<" ","I","V","\n">>
    /\ answer

\* C10: the words of the text process_runs keeps for process_paragraph are the
\* words of the paragraph without the skip_words words of the title, however the
\* text is divided into runs.
TitleWordsSkipped ==
    (Called("process_paragraph") /\ out.words # <<>>) =>
        split(PiecesText(out.pieces)) = Drop(out.words, out.skip_words)

====
